---- MODULE Spec2Model ----
(***************************************************************************)
(* Model of authority/provisioner/nebula.go: the Nebula provisioner.       *)
(*                                                                         *)
(* State: the provisioner object p (exported configuration fields and the  *)
(* unexported claimer / caPool / audiences set by Init), the injectable    *)
(* time source `clock` (minutes), the position of the provisioner in its   *)
(* lifecycle (pc), and the last call with its returned values (call, ret). *)
(* One action per exported method; a call returns into ret and the caller  *)
(* consumes the result (Return) before the next call.                      *)
(*                                                                         *)
(* Go nil pointers are records with nil |-> TRUE; a nil dereference is the *)
(* runtime panic of Go, modelled as the outcome err = "panic".             *)
(***************************************************************************)
EXTENDS Naturals, Sequences, FiniteSets, TLC

VARIABLES p, clock, pc, call, ret

vars == <<p, clock, pc, call, ret>>

(* Bounds of the model *)

\* the time source runs from minute 0 to minute MaxClock
MaxClock == 3
\* longest principal list carried by a token's SSH sub-claims
MaxPrincipals == 2

(* Program constants *)

\* time.Minute, the leeway of ValidateWithLeeway, in the model's unit (minutes)
Leeway == 1

NebulaCertHeader == "nbc"
TypeNebula == "Nebula"
SSHHostCert == "host"
SSHUserCert == "user"

(* net.IP: an address and the length of the byte slice holding it (4 or   *)
(* 16); net.ParseIP returns the 16-byte form, a certificate holds either. *)

NoIP == [nil |-> TRUE, len |-> 0, addr |-> ""]
IP4(a) == [nil |-> FALSE, len |-> 4, addr |-> a]
IP16(a) == [nil |-> FALSE, len |-> 16, addr |-> a]

\* net.ParseIP: nil unless the string is an IP literal; the IPv4-mapped IPv6
\* literal denotes the same address as the dotted form.
ParseIP(s) ==
    CASE s = "10.0.0.7" -> IP16("10.0.0.7")
      [] s = "::ffff:10.0.0.7" -> IP16("10.0.0.7")
      [] s = "10.0.0.8" -> IP16("10.0.0.8")
      [] s = "10.0.0.9" -> IP16("10.0.0.9")
      [] OTHER -> NoIP

\* net.IP.Equal: same address; the 4-byte and 16-byte forms are equal.
IPEqual(a, b) == ~a.nil /\ ~b.nil /\ a.addr = b.addr

\* net.IP.String: the dotted form of an IPv4 address, whatever its length.
IPString(ip) == IF ip.nil THEN "<nil>" ELSE ip.addr

IPNet(ip, bits) == [IP |-> ip, Mask |-> bits]

(* cert.NebulaCertificate (Details) and the certificates tokens carry *)

NilCert ==
    [nil |-> TRUE, Name |-> "", Ips |-> <<>>, IsCA |-> FALSE, PublicKey |-> "",
     NotBefore |-> 0, NotAfter |-> 0, Issuer |-> ""]

\* leaf of the trusted CA, valid for the whole run
CertNode7 ==
    [nil |-> FALSE, Name |-> "node-7",
     Ips |-> <<IPNet(IP4("10.0.0.7"), 32), IPNet(IP16("10.0.0.8"), 32)>>,
     IsCA |-> FALSE, PublicKey |-> "K1",
     NotBefore |-> 0, NotAfter |-> 100, Issuer |-> "CA1"]

\* leaf of the trusted CA, valid in minutes 1..2 only
CertShort ==
    [nil |-> FALSE, Name |-> "node-7", Ips |-> <<IPNet(IP4("10.0.0.7"), 32)>>,
     IsCA |-> FALSE, PublicKey |-> "K1",
     NotBefore |-> 1, NotAfter |-> 2, Issuer |-> "CA1"]

\* leaf of a CA that is not in the root pool
CertRogue ==
    [nil |-> FALSE, Name |-> "node-7", Ips |-> <<IPNet(IP4("10.0.0.7"), 32)>>,
     IsCA |-> FALSE, PublicKey |-> "K1",
     NotBefore |-> 0, NotAfter |-> 100, Issuer |-> "CA2"]

\* certificate of the trusted CA with the authority role flag set
CertSubCA ==
    [nil |-> FALSE, Name |-> "ca-node", Ips |-> <<>>,
     IsCA |-> TRUE, PublicKey |-> "K2",
     NotBefore |-> 0, NotAfter |-> 100, Issuer |-> "CA1"]

MeshCerts == {CertNode7, CertShort, CertRogue, CertSubCA}

\* cert.NebulaCAPool; NewCAPoolFromBytes parses the PEM blocks of Roots
NilPool == [nil |-> TRUE, CAs |-> {}]
RootsEmpty == <<>>
RootsGood == <<"CA1">>
RootsBad == <<"not-a-pem">>
PEMRootOK(b) == b \in {"CA1", "CA2"}

\* NebulaCertificate.Verify(t, pool): the issuer is in the pool and the
\* certificate is not expired at t (t before NotBefore or after NotAfter).
Verify(c, t, pool) ==
    /\ ~pool.nil
    /\ c.Issuer \in pool.CAs
    /\ ~(t < c.NotBefore \/ t > c.NotAfter)


(* Claims, Claimer and Config (declared beside nebula.go): the duration-   *)
(* limit policy. A nil field of the provisioner's claims inherits the      *)
(* global value. Durations are minutes.                                    *)

GlobalClaims ==
    [nil |-> FALSE, MinTLSDur |-> 5, MaxTLSDur |-> 1440, DefaultTLSDur |-> 1440,
     EnableSSHCA |-> FALSE, DisableRenewal |-> FALSE]

NilClaims ==
    [nil |-> TRUE, MinTLSDur |-> 5, MaxTLSDur |-> 1440, DefaultTLSDur |-> 1440,
     EnableSSHCA |-> FALSE, DisableRenewal |-> FALSE]

ClaimsSSH == [GlobalClaims EXCEPT !.EnableSSHCA = TRUE, !.MaxTLSDur = 720, !.DefaultTLSDur = 60]
ClaimsSSHNoRenew == [ClaimsSSH EXCEPT !.DisableRenewal = TRUE]
ClaimsNoRenew == [GlobalClaims EXCEPT !.DisableRenewal = TRUE]
\* min above max: the claimer's validation rejects it
ClaimsInvalid == [GlobalClaims EXCEPT !.MinTLSDur = 2000]

ProvisionerClaims == {NilClaims, ClaimsSSH, ClaimsSSHNoRenew, ClaimsNoRenew, ClaimsInvalid}

NilClaimer == [nil |-> TRUE, claims |-> NilClaims, global |-> NilClaims]

ClaimsOf(c) == IF c.claims.nil THEN c.global ELSE c.claims
ClaimerValid(c) ==
    /\ ClaimsOf(c).MinTLSDur <= ClaimsOf(c).DefaultTLSDur
    /\ ClaimsOf(c).DefaultTLSDur <= ClaimsOf(c).MaxTLSDur

\* NewClaimer(claims, global): the claimer and whether its validation failed
NewClaimer(claims, global) ==
    LET c == [nil |-> FALSE, claims |-> claims, global |-> global]
    IN [claimer |-> c, err |-> IF ClaimerValid(c) THEN "nil" ELSE "error"]

IsSSHCAEnabled(c) == ClaimsOf(c).EnableSSHCA
IsDisableRenewal(c) == ClaimsOf(c).DisableRenewal
DefaultTLSCertDuration(c) == ClaimsOf(c).DefaultTLSDur
MinTLSCertDuration(c) == ClaimsOf(c).MinTLSDur
MaxTLSCertDuration(c) == ClaimsOf(c).MaxTLSDur

\* Audiences: one list of accepted audience URLs per operation
NilAudiences ==
    [Sign |-> <<>>, Revoke |-> <<>>, SSHSign |-> <<>>, SSHRevoke |-> <<>>]

ConfigAudiences ==
    [Sign |-> <<"https://ca/1.0/sign", "https://ca/sign">>,
     Revoke |-> <<"https://ca/1.0/revoke">>,
     SSHSign |-> <<"https://ca/1.0/ssh/sign">>,
     SSHRevoke |-> <<"https://ca/1.0/ssh/revoke">>]

config == [Claims |-> GlobalClaims, Audiences |-> ConfigAudiences]

\* Audiences.WithFragment: the fragment appended to every audience URL
WithFragmentList(l, fragment) == [i \in 1..Len(l) |-> l[i] \o "#" \o fragment]
WithFragment(a, fragment) ==
    [Sign |-> WithFragmentList(a.Sign, fragment),
     Revoke |-> WithFragmentList(a.Revoke, fragment),
     SSHSign |-> WithFragmentList(a.SSHSign, fragment),
     SSHRevoke |-> WithFragmentList(a.SSHRevoke, fragment)]

\* Options: the certificate templates; rendering fails on a broken template
NilOptions == [nil |-> TRUE, broken |-> FALSE]
BrokenOptions == [nil |-> FALSE, broken |-> TRUE]

\* cert.NewCAPoolFromBytes: every PEM block of the blob must be a root
NewCAPoolFromBytes(roots) ==
    IF \A i \in 1..Len(roots) : PEMRootOK(roots[i])
    THEN [pool |-> [nil |-> FALSE, CAs |-> {roots[i] : i \in 1..Len(roots)}], err |-> "nil"]
    ELSE [pool |-> NilPool, err |-> "error"]

\* mutant of GetIDForToken: the "nebula/" prefix is dropped
GetIDForToken_NameOnly == p.Name

\* Nebula.GetIDForToken
GetIDForToken == "nebula/" \o p.Name

(* Tokens: a compact JWS with the mesh certificate in its "nbc" header and *)
(* a jwtPayload (registered claims, sans, step) as its payload.            *)

\* SignSSHOptions, the value of the "ssh" member of the "step" claim
NilSSH ==
    [nil |-> TRUE, CertType |-> "", KeyID |-> "", Principals |-> <<>>,
     ValidAfter |-> 0, ValidBefore |-> 0]
\* stepPayload, the value of the "step" claim
NilStep == [nil |-> TRUE, SSH |-> NilSSH]
StepNoSSH == [nil |-> FALSE, SSH |-> NilSSH]

PrincipalNames == {"node-7", "::ffff:10.0.0.7", "10.0.0.9"}
SeqsUpTo(S, n) == UNION {[1..k -> S] : k \in 0..n}

\* TimeDuration values: 0 is the zero value (IsZero), d > 0 is "now + d minutes"
SSHOptionValues ==
    [nil : {FALSE}, CertType : {"", SSHHostCert, SSHUserCert}, KeyID : {"", "kid-1"},
     Principals : SeqsUpTo(PrincipalNames, MaxPrincipals),
     ValidAfter : {0, 1}, ValidBefore : {0, 5}]

StepsAll == {NilStep, StepNoSSH} \cup {[nil |-> FALSE, SSH |-> o] : o \in SSHOptionValues}

StepOverreach ==
    [nil |-> FALSE,
     SSH |-> [nil |-> FALSE, CertType |-> SSHUserCert, KeyID |-> "", 
              Principals |-> <<"10.0.0.9">>, ValidAfter |-> 0, ValidBefore |-> 0]]
StepsFew == {NilStep, StepNoSSH, StepOverreach}

AudSign == <<"https://other/sign", "https://ca/sign#nebula/edge1">>
AudSSHSign == <<"https://ca/1.0/ssh/sign#nebula/edge1">>
AudRevoke == <<"https://ca/1.0/revoke#nebula/edge1">>
AudSSHRevoke == <<"https://ca/1.0/ssh/revoke#nebula/edge1">>
AudNone == <<>>

\* the signature of a token: the algorithm and the private key that made it
Signatures == [alg : {"EdDSA", "XEdDSA"}, key : {"K1", "K2"}]

\* the value of the nbc header: absent, a JSON number, a string that is not
\* base64url, base64url of bytes that are no PEM certificate, or base64url of
\* the PEM of a certificate
HeaderValues ==
    [kind : {"missing", "number", "badb64", "badpem"}, cert : {NilCert}]
        \cup [kind : {"pem"}, cert : MeshCerts]

\* validity windows of tokens (nbf, exp), in minutes
Windows == {[nbf |-> 0, exp |-> 1], [nbf |-> 2, exp |-> 2]}

\* the protected header, the signature and the registered claims of a token
AuthPartsAll ==
    [nbc : HeaderValues, sig : Signatures, iss : {"edge1", "edge2"},
     aud : {AudSign, AudSSHSign, AudRevoke, AudSSHRevoke, AudNone},
     sub : {"", "node-7"}, win : Windows]

\* tokens a genuine member of the mesh would present
AuthPartsGenuine ==
    {a \in AuthPartsAll :
        /\ a.nbc.kind = "pem" /\ a.nbc.cert \in {CertNode7, CertSubCA}
        /\ a.sig.key = a.nbc.cert.PublicKey
        /\ a.sig.alg = (IF a.nbc.cert.IsCA THEN "EdDSA" ELSE "XEdDSA")
        /\ a.iss = "edge1" /\ a.sub = "node-7" /\ a.win.nbf = 0
        /\ a.aud \in {AudSign, AudSSHSign}
        /\ (a.nbc.cert.IsCA => a.aud = AudSSHSign)}

MkToken(a, st) ==
    [parses |-> TRUE, nbc |-> a.nbc, sig |-> a.sig, iss |-> a.iss, aud |-> a.aud,
     sub |-> a.sub, nbf |-> a.win.nbf, exp |-> a.win.exp, sans |-> <<>>, step |-> st]

\* a string that is not a compact JWS
MalformedToken ==
    [parses |-> FALSE, nbc |-> [kind |-> "missing", cert |-> NilCert],
     sig |-> [alg |-> "EdDSA", key |-> "K1"], iss |-> "", aud |-> <<>>,
     sub |-> "", nbf |-> 0, exp |-> 0, sans |-> <<>>, step |-> NilStep]

Tokens ==
    {MalformedToken}
        \cup {MkToken(a, st) : a \in AuthPartsAll, st \in StepsFew}
        \cup {MkToken(a, st) : a \in AuthPartsGenuine, st \in StepsAll}

\* the tokens handed to the operations that never read them
TokensFew ==
    {MalformedToken} \cup {MkToken(a, st) : a \in AuthPartsGenuine, st \in StepsFew}

\* x509 certificates handed to AuthorizeRenew: (NotBefore, NotAfter), or nil
X509Certs ==
    {[nil |-> TRUE, NotBefore |-> 0, NotAfter |-> 0],
     [nil |-> FALSE, NotBefore |-> 0, NotAfter |-> 1],
     [nil |-> FALSE, NotBefore |-> 0, NotAfter |-> 100]}

(* jose: parsing, signature verification and claim validation *)

\* jose.ParseSigned
ParseSigned(token) == token.parses

\* mutant of DerivePublicKey: the role flag is ignored
DerivePublicKey_NoRole(c) == [type |-> "x25519", key |-> c.PublicKey]

\* the key type nebula.go derives from the certificate's role
DerivePublicKey(c) ==
    [type |-> IF c.IsCA THEN "ed25519" ELSE "x25519", key |-> c.PublicKey]

\* jose.Verify(jwt, pub, &claims): the signature was made with the private
\* key of pub, under the algorithm of pub's type
JoseVerify(token, pub) ==
    /\ token.sig.key = pub.key
    /\ token.sig.alg = (IF pub.type = "ed25519" THEN "EdDSA" ELSE "XEdDSA")

\* jwtPayload decoded by jose.Verify
Payload(token) ==
    [iss |-> token.iss, sub |-> token.sub, aud |-> token.aud, nbf |-> token.nbf,
     exp |-> token.exp, sans |-> token.sans, step |-> token.step]
NilPayload ==
    [iss |-> "", sub |-> "", aud |-> <<>>, nbf |-> 0, exp |-> 0, sans |-> <<>>,
     step |-> NilStep]

\* claims.ValidateWithLeeway(jose.Expected{Issuer, Time}, leeway)
ValidateWithLeeway(claims, issuer, time, leeway) ==
    /\ (issuer # "" => claims.iss = issuer)
    /\ ~(time + leeway < claims.nbf)
    /\ ~(time > claims.exp + leeway)

\* matchesAudience(as, bs): some element of as equals some element of bs
matchesAudience(as, bs) ==
    \E i \in 1..Len(as) : \E j \in 1..Len(bs) : as[i] = bs[j]

\* now(): the injectable time source
now == clock

(* errs: the typed failures *)

NoOptions == <<>>
Unauthorized(m) == [err |-> "Unauthorized", msg |-> m]
Forbidden(m) == [err |-> "Forbidden", msg |-> m]

AuthFail(m) ==
    [cert |-> NilCert, claims |-> NilPayload, err |-> "Unauthorized", msg |-> m]

\* Nebula.authorizeToken(token, audiences): (cert, claims, err)
authorizeToken(token, audiences) ==
    IF ~ParseSigned(token)
    THEN AuthFail("failed to parse token")
    ELSE IF token.nbc.kind = "missing"
    THEN AuthFail("failed to parse token: nbc header is missing")
    ELSE IF token.nbc.kind = "number"
    THEN AuthFail("failed to parse token: nbc header is not valid")
    ELSE IF token.nbc.kind = "badb64"
    THEN AuthFail("failed to parse token: nbc header is not valid")
    ELSE IF token.nbc.kind = "badpem"
    THEN AuthFail("failed to parse nebula certificate: nbc header is not valid")
    ELSE LET c == token.nbc.cert IN
    IF ~Verify(c, now, p.caPool)
    THEN AuthFail("token is not valid: failed to unmarshal certificate")
    ELSE LET pub == DerivePublicKey(c) IN
    IF ~JoseVerify(token, pub)
    THEN AuthFail("token is not valid: signature does not match")
    ELSE LET claims == Payload(token) IN
    IF ~ValidateWithLeeway(claims, p.Name, now, Leeway)
    THEN AuthFail("token is not valid: invalid claims")
    ELSE IF ~matchesAudience(claims.aud, audiences)
    THEN AuthFail("token is not valid: invalid claims")
    ELSE IF claims.sub = ""
    THEN AuthFail("token is not valid: subject cannot be empty")
    ELSE [cert |-> c, claims |-> claims, err |-> "nil", msg |-> ""]

\* Nebula.validateToken
validateToken(token, audiences) ==
    LET a == authorizeToken(token, audiences) IN [err |-> a.err, msg |-> a.msg]

(* Sign options: one record per option, tagged with the Go type *)

\* TemplateOptions / TemplateSSHOptions: render the template with the data
TemplateOptions(o, data) ==
    IF ~o.nil /\ o.broken
    THEN [opt |-> [type |-> "none"], err |-> "error", msg |-> "error rendering template"]
    ELSE [opt |-> [type |-> "templateOptions", data |-> data], err |-> "nil", msg |-> ""]

\* x509util.CreateTemplateData + SetToken + Set("Cert", cert), lines 117-121
X509TemplateData(token, cert, claims) ==
    [Subject |-> claims.sub, SANs |-> claims.sans, Token |-> Payload(token), Cert |-> cert]

\* mutant of X509SignOptions: the duration limit defaults to the maximum
\* duration and takes its bounds from the mesh certificate swapped
X509SignOptions_WrongLimit(templateOptions, cert, claims) ==
    << templateOptions,
       [type |-> "provisionerExtensionOption", Type |-> TypeNebula, Name |-> p.Name,
        CredentialID |-> ""],
       [type |-> "profileLimitDuration", def |-> MaxTLSCertDuration(p.claimer),
        notBefore |-> cert.NotAfter, notAfter |-> cert.NotBefore],
       [type |-> "commonNameValidator", cn |-> claims.sub],
       [type |-> "nebulaSANsValidator", Name |-> cert.Name, IPs |-> cert.Ips],
       [type |-> "defaultPublicKeyValidator"],
       [type |-> "validityValidator", min |-> MinTLSCertDuration(p.claimer),
        max |-> MaxTLSCertDuration(p.claimer)] >>

\* the seven options of AuthorizeSign, lines 128-145
X509SignOptions(templateOptions, cert, claims) ==
    << templateOptions,
       [type |-> "provisionerExtensionOption", Type |-> TypeNebula, Name |-> p.Name,
        CredentialID |-> ""],
       [type |-> "profileLimitDuration", def |-> DefaultTLSCertDuration(p.claimer),
        notBefore |-> cert.NotBefore, notAfter |-> cert.NotAfter],
       [type |-> "commonNameValidator", cn |-> claims.sub],
       [type |-> "nebulaSANsValidator", Name |-> cert.Name, IPs |-> cert.Ips],
       [type |-> "defaultPublicKeyValidator"],
       [type |-> "validityValidator", min |-> MinTLSCertDuration(p.claimer),
        max |-> MaxTLSCertDuration(p.claimer)] >>

\* Nebula.AuthorizeSign(ctx, token): ([]SignOption, error)
AuthorizeSignRet(token) ==
    LET a == authorizeToken(token, p.audiences.Sign) IN
    IF a.err # "nil"
    THEN [opts |-> NoOptions, err |-> a.err, msg |-> a.msg]
    ELSE LET data == X509TemplateData(token, a.cert, a.claims)
             t == TemplateOptions(p.Options, data) IN
    IF t.err # "nil"
    THEN [opts |-> NoOptions, err |-> t.err, msg |-> t.msg]
    ELSE [opts |-> X509SignOptions(t.opt, a.cert, a.claims), err |-> "nil", msg |-> ""]

(* SSH *)

\* time.Time.Unix(): seconds; the model's clock counts minutes
SecondsPerMinute == 60

\* TimeDuration.RelativeTime(t).Unix()
RelativeUnix(d, t) == (t + d) * SecondsPerMinute

\* mutant of PrincipalValid: any IP literal is accepted
PrincipalValid_AnyIP(v, pr) == (pr = v.Name) \/ ~ParseIP(pr).nil

\* the body of the loop of nebulaPrincipalsValidator.Valid for one principal
PrincipalValid(v, pr) ==
    LET byName == (pr = v.Name)
        ip == ParseIP(pr)
    IN IF byName THEN TRUE
       ELSE IF ~ip.nil
            THEN \E k \in 1..Len(v.IPs) : IPEqual(ip, v.IPs[k].IP)
            ELSE FALSE

\* nebulaPrincipalsValidator.Valid(got): the loop, from principal i on
RECURSIVE PrincipalsFrom(_, _, _)
PrincipalsFrom(v, got, i) ==
    IF i > Len(got.Principals)
    THEN [err |-> "nil", msg |-> ""]
    ELSE IF ~PrincipalValid(v, got.Principals[i])
         THEN Forbidden("ssh certificate principals does contain a valid name or IP address")
         ELSE PrincipalsFrom(v, got, i + 1)

nebulaPrincipalsValidator_Valid(v, got) == PrincipalsFrom(v, got, 1)

\* default principals, lines 162-166
DefaultPrincipals(cert) ==
    <<cert.Name>> \o [i \in 1..Len(cert.Ips) |-> IPString(cert.Ips[i].IP)]

\* the condition of line 171, claims.Step != nil || claims.Step.SSH != nil:
\* the right operand is evaluated only when the left is false, and then it
\* dereferences the nil claims.Step
StepSSHGiven(claims) ==
    IF ~claims.step.nil THEN "true"
    ELSE IF claims.step.nil THEN "panic"
    ELSE IF ~claims.step.SSH.nil THEN "true" ELSE "false"

\* sshutil.CreateTemplateData + SetToken + Set("Cert", cert), lines 216-220
SSHTemplateData(token, cert, keyID, principals) ==
    [Type |-> SSHHostCert, KeyID |-> keyID, Principals |-> principals,
     Token |-> Payload(token), Cert |-> cert]

\* the five trailing options of AuthorizeSSHSign, lines 227-237
SSHTrailingOptions(templateOptions, cert) ==
    << templateOptions,
       [type |-> "sshLimitDuration", Claimer |-> p.claimer, NotAfter |-> cert.NotAfter],
       [type |-> "sshDefaultPublicKeyValidator"],
       [type |-> "sshCertValidityValidator", Claimer |-> p.claimer],
       [type |-> "sshCertDefaultValidator"] >>

\* the options collected inside the block of lines 171-213
SSHClaimOptions(claims, opts, t) ==
    << [type |-> "sshCertOptionsValidator",
        o |-> [nil |-> FALSE, CertType |-> SSHHostCert, KeyID |-> claims.sub,
               Principals |-> <<>>, ValidAfter |-> 0, ValidBefore |-> 0]],
       [type |-> "sshCertOptionsValidator", o |-> opts] >>
    \o (IF opts.ValidAfter # 0
        THEN <<[type |-> "sshCertValidAfterModifier", unix |-> RelativeUnix(opts.ValidAfter, t)]>>
        ELSE <<>>)
    \o (IF opts.ValidBefore # 0
        THEN <<[type |-> "sshCertValidBeforeModifier", unix |-> RelativeUnix(opts.ValidBefore, t)]>>
        ELSE <<>>)

Panic == [opts |-> NoOptions, err |-> "panic", msg |-> "nil pointer dereference"]

\* mutant of SSHSignFinish: the options collected so far accompany the error
SSHSignFinish_KeepOptions(token, cert, keyID, principals, signOptions) ==
    LET data == SSHTemplateData(token, cert, keyID, principals)
        t == TemplateOptions(p.Options, data) IN
    IF t.err # "nil"
    THEN [opts |-> signOptions, err |-> t.err, msg |-> t.msg]
    ELSE [opts |-> signOptions \o SSHTrailingOptions(t.opt, cert), err |-> "nil", msg |-> ""]

\* lines 215-237: render the template and append the trailing options
SSHSignFinish(token, cert, keyID, principals, signOptions) ==
    LET data == SSHTemplateData(token, cert, keyID, principals)
        t == TemplateOptions(p.Options, data) IN
    IF t.err # "nil"
    THEN [opts |-> NoOptions, err |-> t.err, msg |-> t.msg]
    ELSE [opts |-> signOptions \o SSHTrailingOptions(t.opt, cert), err |-> "nil", msg |-> ""]

\* lines 160-237 of AuthorizeSSHSign, after the token was authorized
SSHSignAuthorized(token, cert, claims) ==
    LET given == StepSSHGiven(claims) IN
    IF given = "panic" THEN Panic
    ELSE IF given = "false"
    THEN SSHSignFinish(token, cert, claims.sub, DefaultPrincipals(cert), NoOptions)
    ELSE LET opts == claims.step.SSH IN
    \* line 179, *opts: opts is nil when the step claim has no ssh member
    IF opts.nil THEN Panic
    ELSE LET v == [Name |-> cert.Name, IPs |-> cert.Ips]
             e == nebulaPrincipalsValidator_Valid(v, opts) IN
    IF e.err # "nil"
    THEN [opts |-> NoOptions, err |-> e.err, msg |-> e.msg]
    ELSE IF opts.CertType # "" /\ opts.CertType # SSHHostCert
    THEN [opts |-> NoOptions, err |-> "Forbidden",
          msg |-> "ssh certificate type does not match"]
    ELSE SSHSignFinish(token, cert,
            IF opts.KeyID # "" THEN opts.KeyID ELSE claims.sub,
            IF Len(opts.Principals) > 0 THEN opts.Principals ELSE DefaultPrincipals(cert),
            SSHClaimOptions(claims, opts, now))

\* mutant of AuthorizeSSHSignRet: the token is examined before the SSH flag
AuthorizeSSHSignRet_TokenFirst(token) ==
    LET a == authorizeToken(token, p.audiences.SSHSign) IN
    IF a.err # "nil"
    THEN [opts |-> NoOptions, err |-> a.err, msg |-> a.msg]
    ELSE IF ~IsSSHCAEnabled(p.claimer)
    THEN [opts |-> NoOptions, err |-> "Unauthorized", msg |-> "ssh is disabled"]
    ELSE SSHSignAuthorized(token, a.cert, a.claims)

\* Nebula.AuthorizeSSHSign(ctx, token): ([]SignOption, error)
AuthorizeSSHSignRet(token) ==
    IF ~IsSSHCAEnabled(p.claimer)
    THEN [opts |-> NoOptions, err |-> "Unauthorized", msg |-> "ssh is disabled"]
    ELSE LET a == authorizeToken(token, p.audiences.SSHSign) IN
    IF a.err # "nil"
    THEN [opts |-> NoOptions, err |-> a.err, msg |-> a.msg]
    ELSE SSHSignAuthorized(token, a.cert, a.claims)

\* mutant of AuthorizeRenewRet: an expired certificate is refused as well
AuthorizeRenewRet_CheckExpiry(crt) ==
    IF IsDisableRenewal(p.claimer) \/ (~crt.nil /\ now > crt.NotAfter)
    THEN Unauthorized("renew is disabled")
    ELSE [err |-> "nil", msg |-> ""]

\* Nebula.AuthorizeRenew(ctx, cert): error
AuthorizeRenewRet(crt) ==
    IF IsDisableRenewal(p.claimer)
    THEN Unauthorized("renew is disabled")
    ELSE [err |-> "nil", msg |-> ""]

\* Nebula.AuthorizeRevoke(ctx, token): error
AuthorizeRevokeRet(token) == validateToken(token, p.audiences.Revoke)

\* mutant of AuthorizeSSHRevokeRet: the ssh-revoke audience is consulted
AuthorizeSSHRevokeRet_SSHAudience(token) ==
    IF ~IsSSHCAEnabled(p.claimer)
    THEN Unauthorized("ssh is disabled")
    ELSE LET a == authorizeToken(token, p.audiences.SSHRevoke) IN
    IF a.err # "nil" THEN [err |-> a.err, msg |-> a.msg] ELSE [err |-> "nil", msg |-> ""]

\* Nebula.AuthorizeSSHRevoke(ctx, token): error
AuthorizeSSHRevokeRet(token) ==
    IF ~IsSSHCAEnabled(p.claimer)
    THEN Unauthorized("ssh is disabled")
    ELSE LET a == authorizeToken(token, p.audiences.Revoke) IN
    IF a.err # "nil" THEN [err |-> a.err, msg |-> a.msg] ELSE [err |-> "nil", msg |-> ""]

\* mutant of AuthorizeSSHRenewRet: the token is validated like a sign token
AuthorizeSSHRenewRet_Validate(token) ==
    LET a == validateToken(token, p.audiences.SSHSign) IN
    [crt |-> "nil", err |-> a.err, msg |-> a.msg]

\* Nebula.AuthorizeSSHRenew(ctx, token): (*ssh.Certificate, error)
AuthorizeSSHRenewRet(token) ==
    [crt |-> "nil", err |-> "Unauthorized", msg |-> "does not support SSH renew"]

\* Nebula.AuthorizeSSHRekey(ctx, token): (*ssh.Certificate, []SignOption, error)
AuthorizeSSHRekeyRet(token) ==
    [crt |-> "nil", opts |-> NoOptions, err |-> "Unauthorized",
     msg |-> "does not support SSH rekey"]

(* Init *)

\* what NewClaimer hands back beside a non-nil error: the claimer it built,
\* or nil
ClaimerOnError(c) == {c, NilClaimer}

\* Nebula.Init(config): the provisioner after the call and the error returned
InitOutcomes ==
    IF p.Type = ""
    THEN {[p |-> p, err |-> "error", msg |-> "provisioner type cannot be empty"]}
    ELSE IF p.Name = ""
    THEN {[p |-> p, err |-> "error", msg |-> "provisioner name cannot be empty"]}
    ELSE IF Len(p.Roots) = 0
    THEN {[p |-> p, err |-> "error", msg |-> "provisioner root(s) cannot be empty"]}
    ELSE LET nc == NewClaimer(p.Claims, config.Claims) IN
    IF nc.err # "nil"
    THEN {[p |-> [p EXCEPT !.claimer = c], err |-> "error", msg |-> "invalid claims"] :
            c \in ClaimerOnError(nc.claimer)}
    ELSE LET p1 == [p EXCEPT !.claimer = nc.claimer]
             np == NewCAPoolFromBytes(p.Roots) IN
    IF np.err # "nil"
    THEN {[p |-> [p1 EXCEPT !.caPool = np.pool], err |-> "InternalServer",
           msg |-> "failed to start ca pool"]}
    ELSE {[p |-> [p1 EXCEPT !.caPool = np.pool,
                            !.audiences = WithFragment(config.Audiences, GetIDForToken)],
           err |-> "nil", msg |-> ""]}

(* The state machine *)

NoX509 == [nil |-> TRUE, NotBefore |-> 0, NotAfter |-> 0]
NoCall == [op |-> "none", token |-> MalformedToken, crt |-> NoX509]
NoRet == [err |-> "none", msg |-> "", opts |-> NoOptions, crt |-> "nil"]

Returned(r) == [err |-> r.err, msg |-> r.msg, opts |-> NoOptions, crt |-> "nil"]
ReturnedOpts(r) == [err |-> r.err, msg |-> r.msg, opts |-> r.opts, crt |-> "nil"]

\* a provisioner as loaded from configuration, Init not yet called
Provisioners ==
    [Type : {"", TypeNebula}, Name : {"", "edge1"},
     Roots : {RootsEmpty, RootsGood, RootsBad},
     Claims : ProvisionerClaims, Options : {NilOptions, BrokenOptions},
     claimer : {NilClaimer}, caPool : {NilPool}, audiences : {NilAudiences}]

Init ==
    /\ p \in Provisioners
    /\ clock = 0
    /\ pc = "new"
    /\ call = NoCall
    /\ ret = NoRet

\* Nebula.Init: called once, before the provisioner enters service
Nebula_Init ==
    /\ pc = "new"
    /\ \E o \in InitOutcomes :
        /\ p' = o.p
        /\ pc' = IF o.err = "nil" THEN "ready" ELSE "failed"
        /\ ret' = Returned(o)
    /\ call' = [NoCall EXCEPT !.op = "Init"]
    /\ UNCHANGED clock

AuthorizeSign ==
    /\ pc = "ready"
    /\ \E token \in Tokens :
        /\ call' = [op |-> "AuthorizeSign", token |-> token, crt |-> NoX509]
        /\ ret' = ReturnedOpts(AuthorizeSignRet(token))
    /\ pc' = "returned"
    /\ UNCHANGED <<p, clock>>

AuthorizeSSHSign ==
    /\ pc = "ready"
    /\ \E token \in Tokens :
        /\ call' = [op |-> "AuthorizeSSHSign", token |-> token, crt |-> NoX509]
        /\ ret' = ReturnedOpts(AuthorizeSSHSignRet(token))
    /\ pc' = "returned"
    /\ UNCHANGED <<p, clock>>

AuthorizeRenew ==
    /\ pc = "ready"
    /\ \E crt \in X509Certs :
        /\ call' = [op |-> "AuthorizeRenew", token |-> MalformedToken, crt |-> crt]
        /\ ret' = Returned(AuthorizeRenewRet(crt))
    /\ pc' = "returned"
    /\ UNCHANGED <<p, clock>>

AuthorizeRevoke ==
    /\ pc = "ready"
    /\ \E token \in Tokens :
        /\ call' = [op |-> "AuthorizeRevoke", token |-> token, crt |-> NoX509]
        /\ ret' = Returned(AuthorizeRevokeRet(token))
    /\ pc' = "returned"
    /\ UNCHANGED <<p, clock>>

AuthorizeSSHRevoke ==
    /\ pc = "ready"
    /\ \E token \in Tokens :
        /\ call' = [op |-> "AuthorizeSSHRevoke", token |-> token, crt |-> NoX509]
        /\ ret' = Returned(AuthorizeSSHRevokeRet(token))
    /\ pc' = "returned"
    /\ UNCHANGED <<p, clock>>

AuthorizeSSHRenew ==
    /\ pc = "ready"
    /\ \E token \in TokensFew :
        /\ call' = [op |-> "AuthorizeSSHRenew", token |-> token, crt |-> NoX509]
        /\ ret' = [Returned(AuthorizeSSHRenewRet(token)) EXCEPT
                        !.crt = AuthorizeSSHRenewRet(token).crt]
    /\ pc' = "returned"
    /\ UNCHANGED <<p, clock>>

AuthorizeSSHRekey ==
    /\ pc = "ready"
    /\ \E token \in TokensFew :
        /\ call' = [op |-> "AuthorizeSSHRekey", token |-> token, crt |-> NoX509]
        /\ ret' = [ReturnedOpts(AuthorizeSSHRekeyRet(token)) EXCEPT
                        !.crt = AuthorizeSSHRekeyRet(token).crt]
    /\ pc' = "returned"
    /\ UNCHANGED <<p, clock>>

\* the caller consumes the returned values; the next call starts afresh
Return ==
    /\ pc = "returned"
    /\ pc' = "ready"
    /\ call' = NoCall
    /\ ret' = NoRet
    /\ UNCHANGED <<p, clock>>

\* the time source advances between calls
Tick ==
    /\ pc = "ready"
    /\ clock < MaxClock
    /\ clock' = clock + 1
    /\ UNCHANGED <<p, pc, call, ret>>

Next ==
    \/ Nebula_Init
    \/ AuthorizeSign
    \/ AuthorizeSSHSign
    \/ AuthorizeRenew
    \/ AuthorizeRevoke
    \/ AuthorizeSSHRevoke
    \/ AuthorizeSSHRenew
    \/ AuthorizeSSHRekey
    \/ Return
    \/ Tick

Spec == Init /\ [][Next]_vars

(* Properties *)

\* the token of the call in progress and the mesh certificate it carries
tok == call.token
mesh == call.token.nbc.cert

TokenOps == {"AuthorizeSign", "AuthorizeSSHSign", "AuthorizeRevoke", "AuthorizeSSHRevoke"}

\* the token parsed and its nbc header is the base64url of a PEM certificate
HeaderHolds == tok.parses /\ tok.nbc.kind = "pem"
\* the mesh certificate chains to the root pool and is inside its validity
ChainHolds ==
    /\ mesh.Issuer \in p.caPool.CAs
    /\ mesh.NotBefore <= clock /\ clock <= mesh.NotAfter
\* the token was signed by the certificate's key, as the key type of its role
SignatureHolds ==
    /\ tok.sig.key = mesh.PublicKey
    /\ (mesh.IsCA => tok.sig.alg = "EdDSA")
    /\ (~mesh.IsCA => tok.sig.alg = "XEdDSA")
\* issuer, validity window with one minute of leeway, subject
ClaimsHold ==
    /\ tok.iss = p.Name
    /\ tok.nbf <= clock + 1 /\ clock <= tok.exp + 1
    /\ tok.sub # ""
AllHold == HeaderHolds /\ ChainHolds /\ SignatureHolds /\ ClaimsHold

\* the accepted-audience list of the operation called
AcceptedAudience ==
    CASE call.op = "AuthorizeSign" -> p.audiences.Sign
      [] call.op = "AuthorizeSSHSign" -> p.audiences.SSHSign
      [] call.op \in {"AuthorizeRevoke", "AuthorizeSSHRevoke"} -> p.audiences.Revoke
      [] OTHER -> <<>>
AudienceHolds ==
    \E i \in 1..Len(tok.aud) : \E j \in 1..Len(AcceptedAudience) :
        tok.aud[i] = AcceptedAudience[j]

SSHEnabled == IF p.Claims.nil THEN config.Claims.EnableSSHCA ELSE p.Claims.EnableSSHCA
RenewalDisabled ==
    IF p.Claims.nil THEN config.Claims.DisableRenewal ELSE p.Claims.DisableRenewal

\* C1: a token-taking operation returns success only if the token parsed, its
\* nbc header held a certificate that verifies against the root pool at the
\* reference time, the signature verifies under the key of the certificate's
\* role, the issuer is the provisioner's name, the reference time is inside
\* the validity window with one minute of leeway and the subject is not
\* empty; if any of these fails the operation returns Unauthorized.
C1_TokenChecks ==
    (pc = "returned" /\ call.op \in TokenOps) =>
        /\ (ret.err = "nil" => AllHold)
        /\ (~AllHold => ret.err = "Unauthorized")

\* C1 witness: a validly signed token with the right audience whose mesh
\* certificate has expired is rejected with Unauthorized
C1_Witness ==
    /\ pc = "returned" /\ call.op = "AuthorizeSign"
    /\ HeaderHolds /\ SignatureHolds /\ ClaimsHold /\ AudienceHolds
    /\ mesh.Issuer \in p.caPool.CAs /\ clock > mesh.NotAfter
    /\ ret.err = "Unauthorized"

\* C2: a token whose audience list has no element in the accepted set of the
\* operation called (sign, ssh-sign, revoke for both revocations) is rejected
\* with Unauthorized even when everything else about it is valid.
C2_Audience ==
    (pc = "returned" /\ call.op \in TokenOps /\ ~AudienceHolds) =>
        ret.err = "Unauthorized"

\* C2 witness: an otherwise valid token carrying only the sign audience is
\* presented to AuthorizeRevoke and rejected
C2_Witness ==
    /\ pc = "returned" /\ call.op = "AuthorizeRevoke"
    /\ AllHold /\ tok.aud = AudSign /\ ~AudienceHolds
    /\ ret.err = "Unauthorized"

\* the principals and key id AuthorizeSSHSign derives from the certificate
MeshPrincipals == <<mesh.Name>> \o [i \in 1..Len(mesh.Ips) |-> mesh.Ips[i].IP.addr]

\* C3: with SSH enabled, a token that passes authorization against the
\* ssh-sign audience and carries no SSH sub-claims (no step claim, or a step
\* claim without ssh) makes AuthorizeSSHSign return no error, key id = subject,
\* principals = mesh name followed by the mesh IPs, and exactly the five
\* trailing options.
C3_SubClaimsOptional ==
    (/\ pc = "returned" /\ call.op = "AuthorizeSSHSign"
     /\ SSHEnabled /\ AllHold /\ AudienceHolds
     /\ (tok.step.nil \/ tok.step.SSH.nil)
     /\ ~p.Options.broken) =>
        /\ ret.err = "nil"
        /\ Len(ret.opts) = 5
        /\ ret.opts[1].type = "templateOptions"
        /\ ret.opts[1].data.KeyID = tok.sub
        /\ ret.opts[1].data.Principals = MeshPrincipals
        /\ ret.opts[2].type = "sshLimitDuration"
        /\ ret.opts[3].type = "sshDefaultPublicKeyValidator"
        /\ ret.opts[4].type = "sshCertValidityValidator"
        /\ ret.opts[5].type = "sshCertDefaultValidator"

\* a principal the mesh certificate does not cover: neither its name nor an
\* IP literal equal to the IP of one of its networks
Uncovered(pr) ==
    /\ pr # mesh.Name
    /\ \/ ParseIP(pr).nil
       \/ \A k \in 1..Len(mesh.Ips) : ParseIP(pr).addr # mesh.Ips[k].IP.addr

SSHSignCase ==
    /\ pc = "returned" /\ call.op = "AuthorizeSSHSign"
    /\ SSHEnabled /\ AllHold /\ AudienceHolds
    /\ ~tok.step.nil /\ ~tok.step.SSH.nil

\* C4: AuthorizeSSHSign, SSH enabled, token authorized for ssh-sign: if the
\* SSH sub-claims list a principal that is neither the mesh name nor an IP of
\* the mesh certificate the call fails with Forbidden and no sign options; if
\* every listed principal is covered the principal check does not reject.
C4_Principals ==
    SSHSignCase =>
        LET ps == tok.step.SSH.Principals IN
        /\ (\E i \in 1..Len(ps) : Uncovered(ps[i])) =>
                (ret.err = "Forbidden" /\ ret.opts = <<>>)
        /\ (\A i \in 1..Len(ps) : ~Uncovered(ps[i])) =>
                ret.msg # "ssh certificate principals does contain a valid name or IP address"

\* C4 witness: a covered principal followed by an uncovered one is Forbidden
C4_Witness ==
    /\ SSHSignCase
    /\ tok.step.SSH.Principals = <<"node-7", "10.0.0.9">>
    /\ ret.err = "Forbidden"

\* C5: no operation returns sign options together with an error.
C5_NoPartialOptions ==
    (pc = "returned" /\ ret.err # "nil") => ret.opts = <<>>

\* C5 witness: AuthorizeSSHSign fails rendering the template after the
\* sub-claim validators and both validity modifiers were collected
C5_Witness ==
    /\ SSHSignCase
    /\ p.Options.broken
    /\ tok.step.SSH.ValidAfter # 0 /\ tok.step.SSH.ValidBefore # 0
    /\ \A i \in 1..Len(tok.step.SSH.Principals) : ~Uncovered(tok.step.SSH.Principals[i])
    /\ tok.step.SSH.CertType = "host"
    /\ ret.err = "error" /\ ret.opts = <<>>

\* C6: a successful AuthorizeSign returns exactly seven options in the fixed
\* order template, provisioner extension (this provisioner's type and name),
\* duration limit (default TLS duration, bounded by the verified mesh
\* certificate's window), common name = subject, SAN validator built from the
\* verified mesh certificate, public key validator, validity validator with
\* the policy's min and max TLS durations.
C6_SevenOptions ==
    (pc = "returned" /\ call.op = "AuthorizeSign" /\ ret.err = "nil") =>
        LET policy == IF p.Claims.nil THEN config.Claims ELSE p.Claims IN
        /\ Len(ret.opts) = 7
        /\ [i \in 1..7 |-> ret.opts[i].type] =
              <<"templateOptions", "provisionerExtensionOption", "profileLimitDuration",
                "commonNameValidator", "nebulaSANsValidator",
                "defaultPublicKeyValidator", "validityValidator">>
        /\ ret.opts[2].Type = "Nebula" /\ ret.opts[2].Name = p.Name
        /\ ret.opts[3].def = policy.DefaultTLSDur
        /\ ret.opts[3].notBefore = mesh.NotBefore /\ ret.opts[3].notAfter = mesh.NotAfter
        /\ ret.opts[4].cn = tok.sub
        /\ ret.opts[5].Name = mesh.Name /\ ret.opts[5].IPs = mesh.Ips
        /\ ret.opts[7].min = policy.MinTLSDur /\ ret.opts[7].max = policy.MaxTLSDur
        /\ ChainHolds

\* C6 witness: AuthorizeSign succeeded for the leaf node-7 under a policy
\* that overrides the global durations
C6_Witness ==
    /\ pc = "returned" /\ call.op = "AuthorizeSign" /\ ret.err = "nil"
    /\ mesh = CertNode7 /\ ~p.Claims.nil /\ p.Claims.DefaultTLSDur = 60
    /\ Len(ret.opts) = 7

\* C7: AuthorizeSSHRenew and AuthorizeSSHRekey always return Unauthorized with
\* a "does not support" reason, a nil certificate and no sign options.
C7_RenewRekeyUnsupported ==
    (pc = "returned" /\ call.op \in {"AuthorizeSSHRenew", "AuthorizeSSHRekey"}) =>
        /\ ret.err = "Unauthorized"
        /\ ret.msg \in {"does not support SSH renew", "does not support SSH rekey"}
        /\ ret.crt = "nil"
        /\ ret.opts = <<>>

\* C7 witness: SSH is enabled and the token is one AuthorizeSSHSign would
\* accept, and AuthorizeSSHRekey still refuses
C7_Witness ==
    /\ pc = "returned" /\ call.op = "AuthorizeSSHRekey"
    /\ SSHEnabled /\ AllHold /\ tok.aud = AudSSHSign
    /\ ret.err = "Unauthorized"

\* C8: AuthorizeRenew returns Unauthorized iff the policy disables renewal,
\* whatever certificate is passed, and succeeds otherwise.
C8_Renew ==
    (pc = "returned" /\ call.op = "AuthorizeRenew") =>
        /\ (ret.err = "Unauthorized") <=> RenewalDisabled
        /\ ~RenewalDisabled => ret.err = "nil"

\* C8 witness: renewal is disabled and a certificate still inside its
\* validity window is refused
C8_Witness ==
    /\ pc = "returned" /\ call.op = "AuthorizeRenew"
    /\ RenewalDisabled /\ ~call.crt.nil /\ clock <= call.crt.NotAfter
    /\ ret.err = "Unauthorized"

\* C9: with SSH not enabled, AuthorizeSSHSign and AuthorizeSSHRevoke fail with
\* Unauthorized "ssh is disabled" for every token, malformed or valid or
\* overreaching, never Forbidden and never with sign options; AuthorizeRevoke
\* does not look at the SSH flag.
C9_SSHDisabled ==
    /\ (pc = "returned" /\ ~SSHEnabled
            /\ call.op \in {"AuthorizeSSHSign", "AuthorizeSSHRevoke"}) =>
        (ret.err = "Unauthorized" /\ ret.msg = "ssh is disabled" /\ ret.opts = <<>>)
    /\ (pc = "returned" /\ call.op = "AuthorizeRevoke") =>
        /\ ret.msg # "ssh is disabled"
        /\ (AllHold /\ AudienceHolds) => ret.err = "nil"

\* C9 witness: SSH is disabled and a genuine token whose sub-claims ask for a
\* user certificate and a foreign principal gets "ssh is disabled"
C9_Witness ==
    /\ pc = "returned" /\ call.op = "AuthorizeSSHSign" /\ ~SSHEnabled
    /\ AllHold /\ AudienceHolds /\ tok.step = StepOverreach
    /\ ret.err = "Unauthorized" /\ ret.msg = "ssh is disabled"

\* C10 as stated: after any failed Init none of claimer, caPool and audiences
\* has been modified.
C10_AllOrNothing ==
    pc = "failed" =>
        (p.claimer = NilClaimer /\ p.caPool = NilPool /\ p.audiences = NilAudiences)

InitFieldMissing == p.Type = "" \/ p.Name = "" \/ Len(p.Roots) = 0
InitPolicyBroken ==
    LET policy == IF p.Claims.nil THEN config.Claims ELSE p.Claims IN
    ~(policy.MinTLSDur <= policy.DefaultTLSDur /\ policy.DefaultTLSDur <= policy.MaxTLSDur)
InitRootsBroken == \E i \in 1..Len(p.Roots) : p.Roots[i] \notin {"CA1", "CA2"}

\* C10 amended: Init returns an error whenever Type, Name or Roots is empty,
\* the policy cannot be built or the root pool cannot be parsed. A failed Init
\* never modifies the audience set, and modifies no internal field when it
\* fails on an empty Type, Name or Roots; a failure to parse the root pool
\* leaves the claimer already assigned. A successful Init sets all three, the
\* audience set being the global audiences with the fragment "nebula/" + Name.
C10_InitFailure ==
    /\ (pc \notin {"new", "failed"}) =>
        /\ ~InitFieldMissing /\ ~InitPolicyBroken /\ ~InitRootsBroken
        /\ ~p.claimer.nil /\ ~p.caPool.nil
        /\ \A op \in {"Sign", "Revoke", "SSHSign", "SSHRevoke"} :
            /\ Len(p.audiences[op]) = Len(config.Audiences[op])
            /\ \A i \in 1..Len(p.audiences[op]) :
                p.audiences[op][i] = config.Audiences[op][i] \o "#nebula/" \o p.Name
    /\ (pc = "failed") =>
        /\ p.audiences = NilAudiences
        /\ InitFieldMissing => (p.claimer = NilClaimer /\ p.caPool = NilPool)
        /\ (~InitFieldMissing /\ ~InitPolicyBroken) => ~p.claimer.nil
    /\ (pc = "new") =>
        (p.claimer = NilClaimer /\ p.caPool = NilPool /\ p.audiences = NilAudiences)

\* C10 witness: Init failed on an unparseable root blob, with the claimer set
\* and the audience set untouched
C10_Witness ==
    /\ pc = "failed" /\ call.op = "Init" /\ ret.err = "InternalServer"
    /\ InitRootsBroken /\ ~p.claimer.nil /\ p.audiences = NilAudiences

====
